---- MODULE Spec2Model ----
(***************************************************************************)
(* key-races: the scrape-to-record pipeline.                               *)
(*   providers/wikipedia.py    WikipediaProvider.fetch_for_targets         *)
(*   providers/ballotpedia.py  BallotpediaProvider.fetch_for_targets       *)
(*   main.py                   the errored/empty filter (_keep)            *)
(* One run of fetch_for_targets is a loop over the targets; every          *)
(* iteration (and, for Ballotpedia, every candidate title tried) is one    *)
(* action whose input is the HTTP response the network gives.              *)
(***************************************************************************)
EXTENDS Integers, Sequences, FiniteSets, TLC

\* ------------------------------------------------------------------ bounds
MaxTargets == 2
MaxPages == 2

\* Python's None, for the Optional[str] fields and missing dictionary keys.
NoneVal == "<None>"

\* ------------------------------------------------------- string conversions
\* str.upper() on the state/office strings the targets use.
Upper(s) ==
    CASE s = "ny" -> "NY"
      [] s = "senate" -> "SENATE"
      [] s = "treasurer" -> "TREASURER"
      [] OTHER -> s

\* str.lower() on the candidate names the documents use.
Lower(s) ==
    CASE s = "Jane Doe" -> "jane doe"
      [] s = "JANE DOE" -> "jane doe"
      [] s = "John Roe" -> "john roe"
      [] OTHER -> s

\* STATE_ABBR.get(state_abbr, state_abbr)
STATE_ABBR(abbr) ==
    CASE abbr = "CA" -> "California"
      [] abbr = "NY" -> "New York"
      [] OTHER -> abbr

\* str.replace(" ", "_") on the state names.
Underscore(s) ==
    CASE s = "New York" -> "New_York"
      [] OTHER -> s

\* title.replace(" ", "%20") on the titles the targets use.
Quote(s) ==
    CASE s = "New York" -> "New%20York"
      [] s = "2024 United States Senate election in California"
           -> "2024%20United%20States%20Senate%20election%20in%20California"
      [] OTHER -> s

\* Python truthiness of an Optional[str]: None and "" are falsy.
Truthy(s) == s # NoneVal /\ s # ""

\* x or y
Or(x, y) == IF Truthy(x) THEN x ELSE y

\* --------------------------------------------------------------- data model
Candidate(name, party, website) ==
    [name |-> name, party |-> party, website |-> website, contact |-> <<>>]

\* Race(id, cycle, office, state, district): the other fields at their defaults.
Race(id, cycle, office, state, district) ==
    [id |-> id, cycle |-> cycle, office |-> office, state |-> state,
     district |-> district, title |-> NoneVal, election_date |-> NoneVal,
     primary_date |-> NoneVal, candidates |-> <<>>,
     sources |-> [wikipedia |-> NoneVal, ballotpedia |-> NoneVal],
     research_links |-> <<>>]

FetchResult(race_id, race) ==
    [race_id |-> race_id, race |-> race, notes |-> <<>>, errors |-> <<>>]

\* ------------------------------------------------------------------ targets
\* One entry of races.targets.yaml.  district 0 stands for "no district".
Target(id, cycle, office, state, district, title, url) ==
    [id |-> id, cycle |-> cycle, office |-> office, state |-> state,
     district |-> district, title |-> title, url |-> url]

WikiTargets ==
    { Target("ca-sen", 2024, "SENATE", "CA", 0,
             "2024 United States Senate election in California", NoneVal),
      Target(NoneVal, 2024, "HOUSE", "NY", 12,
             NoneVal, "https://en.wikipedia.org/wiki/NY12"),
      Target("tx-gov", 2026, "GOVERNOR", "TX", 0, NoneVal, NoneVal),
      Target(NoneVal, 2026, "GOVERNOR", "TX", 0, "", "") }

BpTargets ==
    { Target("ca-sen", 2024, "SENATE", "CA", 0, NoneVal, NoneVal),
      Target(NoneVal, 2026, "treasurer", "ny", 0, NoneVal, NoneVal) }

TargetsOf(p) == IF p = "wikipedia" THEN WikiTargets ELSE BpTargets

\* ---------------------------------------------------------------- documents
\* A response body, as the parsers see it: whether html.parser accepts the
\* markup, the <title> text, the labelled date snippets in document order
\* (Wikipedia: infobox rows; Ballotpedia: phrases of the flattened text) and
\* the headings, lists and tables in document order.
Row(election, primary, date) ==
    [election |-> election, primary |-> primary, date |-> date]
H(text) == [tag |-> "h", text |-> text, items |-> <<>>]
UL(items) == [tag |-> "ul", text |-> "", items |-> items]
TABLE(rows) == [tag |-> "table", text |-> "", items |-> rows]
\* a list item (or the first cell of a table row): its name, the party in
\* parentheses, the hrefs of its links in order
Li(name, party, hrefs) == [name |-> name, party |-> party, hrefs |-> hrefs]

Doc(accepted, title, rows, body, rating, ext) ==
    [accepted |-> accepted, title |-> title, rows |-> rows, body |-> body,
     rating |-> rating, ext |-> ext]

\* "": an empty body.
EmptyBody == Doc(TRUE, NoneVal, <<>>, <<>>, NoneVal, <<>>)
\* Markup html.parser rejects, e.g. "<![foo]>": BeautifulSoup(...) raises.
RejectedBody == Doc(FALSE, NoneVal, <<>>, <<>>, NoneVal, <<>>)
\* A page with a title and nothing the heuristics recognise.
BareDoc ==
    Doc(TRUE, "Some page - Ballotpedia", <<>>, <<H("Results")>>, NoneVal, <<>>)
\* A page with dates and a candidates section.
FullDoc ==
    Doc(TRUE, "2024 election - Ballotpedia",
        <<Row(FALSE, TRUE, "March 5, 2024"), Row(TRUE, FALSE, "November 5, 2024"),
          Row(TRUE, FALSE, "November 2024")>>,
        <<H("Candidates"),
          UL(<<Li("Jane Doe", "D", <<"https://en.wikipedia.org/wiki/Jane_Doe",
                                     "https://janedoe.example/">>),
             Li("JANE DOE", "D", <<>>),
             Li("John Roe", "R", <<"/wiki/John_Roe">>)>>)>>,
        "Cook: Toss-up", <<"https://example.org/sos", "/wiki/Local">>)

Docs == {EmptyBody, RejectedBody, BareDoc, FullDoc}

\* header.get_text(strip=True).lower().startswith("candidates")
StartsWithCandidates(text) == text \in {"Candidates", "Candidates and results"}
\* "candidate" in header.get_text(" ", strip=True).lower()
ContainsCandidate(text) ==
    text \in {"Candidates", "Candidates and results", "Declared candidates"}
\* any(n in cells[0].lower() for n in ("candidate", "name"))
IsHeaderCell(text) == text \in {"Candidate", "Name"}
\* title.text.replace(" - Ballotpedia", "").strip()
StripSuffix(t) ==
    CASE t = "Some page - Ballotpedia" -> "Some page"
      [] t = "2024 election - Ballotpedia" -> "2024 election"
      [] OTHER -> t

\* the first five lists, and the longest list the fallback reads
ShortListScan == 5
ShortListMax == 6

\* header.find_next(tags): the first later element with one of the tags,
\* as its index in the body, or 0.
RECURSIVE find_next(_, _, _)
find_next(body, i, tags) ==
    IF i >= Len(body) THEN 0
    ELSE IF body[i + 1].tag \in tags THEN i + 1
    ELSE find_next(body, i + 1, tags)

\* href.startswith("http")
IsHttp(href) ==
    href \in {"https://example.org/sos", "https://janedoe.example/",
              "https://en.wikipedia.org/wiki/Jane_Doe"}
\* href.startswith("https://en.wikipedia.org")
IsWikipediaLink(href) == href \in {"https://en.wikipedia.org/wiki/Jane_Doe"}

\* the website loop of WikipediaProvider._parse_candidate_li: the first http
\* link of the item that is not a Wikipedia link, or None
RECURSIVE first_external(_)
first_external(hrefs) ==
    IF hrefs = <<>> THEN NoneVal
    ELSE IF IsHttp(Head(hrefs)) /\ ~IsWikipediaLink(Head(hrefs)) THEN Head(hrefs)
    ELSE first_external(Tail(hrefs))

\* _parse_candidate_li over the items of one list: the candidates of the
\* items that have text and a name; the Wikipedia parser (wiki) looks for a
\* website, the Ballotpedia parser leaves it unset.
RECURSIVE parse_lis(_, _)
parse_lis(items, wiki) ==
    IF items = <<>> THEN <<>>
    ELSE (IF Truthy(Head(items).name)
            THEN <<Candidate(Head(items).name, Head(items).party,
                             IF wiki THEN first_external(Head(items).hrefs)
                                     ELSE NoneVal)>>
            ELSE <<>>) \o parse_lis(Tail(items), wiki)

\* "Deduplicate by name": first-seen order, keyed by name.lower().
RECURSIVE dedup(_, _)
dedup(cs, seen) ==
    IF cs = <<>> THEN <<>>
    ELSE IF Lower(Head(cs).name) \in seen THEN dedup(Tail(cs), seen)
    ELSE <<Head(cs)>> \o dedup(Tail(cs), seen \cup {Lower(Head(cs).name)})

\* WikipediaProvider._extract_date is applied to the row text by the caller;
\* a row carries the date it yields.
\* The infobox loop: every matching row with a date assigns the field.
RECURSIVE wiki_dates(_, _)
wiki_dates(rows, race) ==
    IF rows = <<>> THEN race
    ELSE LET r == Head(rows)
             r1 == IF r.election /\ Truthy(r.date)
                     THEN [race EXCEPT !.election_date = r.date] ELSE race
             r2 == IF r.primary /\ Truthy(r.date)
                     THEN [r1 EXCEPT !.primary_date = r.date] ELSE r1
         IN wiki_dates(Tail(rows), r2)

\* the heading loop of _extract_candidates, from body position i on
RECURSIVE wiki_heading_cands(_, _)
wiki_heading_cands(body, i) ==
    IF i > Len(body) THEN <<>>
    ELSE (IF body[i].tag = "h" /\ StartsWithCandidates(body[i].text)
               /\ find_next(body, i, {"ul", "ol"}) # 0
            THEN parse_lis(body[find_next(body, i, {"ul", "ol"})].items, TRUE)
            ELSE <<>>) \o wiki_heading_cands(body, i + 1)

\* the fallback loop of _extract_candidates: the first five lists, the
\* short ones read; n counts the lists seen
RECURSIVE wiki_fallback_cands(_, _, _)
wiki_fallback_cands(body, i, n) ==
    IF i > Len(body) \/ n >= ShortListScan THEN <<>>
    ELSE IF body[i].tag # "ul" THEN wiki_fallback_cands(body, i + 1, n)
    ELSE (IF 0 < Len(body[i].items) /\ Len(body[i].items) <= ShortListMax
            THEN parse_lis(body[i].items, TRUE) ELSE <<>>)
         \o wiki_fallback_cands(body, i + 1, n + 1)

\* WikipediaProvider._extract_candidates
wiki_extract_candidates(doc) ==
    LET found == wiki_heading_cands(doc.body, 1)
    IN IF found # <<>> THEN found
       ELSE dedup(wiki_fallback_cands(doc.body, 1, 0), {})

\* WikipediaProvider._parse_wikipedia_html on an accepted document
\* (BeautifulSoup raises on a rejected one, before any field is set).
parse_wikipedia_html(doc, res) ==
    LET r1 == IF Truthy(doc.title)
                THEN [res.race EXCEPT !.title = doc.title] ELSE res.race
        r2 == wiki_dates(doc.rows, r1)
        cands == wiki_extract_candidates(doc)
    IN IF cands # <<>>
         THEN [res EXCEPT !.race = [r2 EXCEPT !.candidates = cands]]
         ELSE [res EXCEPT !.race = r2,
                          !.notes = Append(@, "No candidates parsed; structure may differ")]

\* the date patterns of _parse_ballotpedia_html take "Month Day, Year" only
IsFullDate(d) == d \in {"March 5, 2024", "November 5, 2024"}

\* re.search(...) over the flattened text: the first matching phrase, or None
RECURSIVE bp_first_date(_, _)
bp_first_date(rows, primary) ==
    IF rows = <<>> THEN NoneVal
    ELSE IF (IF primary THEN Head(rows).primary ELSE Head(rows).election)
            /\ IsFullDate(Head(rows).date)
      THEN Head(rows).date
    ELSE bp_first_date(Tail(rows), primary)

\* the table rows: header rows skipped, a name kept unless a candidate of the
\* race has it already (ignoring case)
RECURSIVE bp_table_cands(_, _)
bp_table_cands(rows, cands) ==
    IF rows = <<>> THEN cands
    ELSE LET name == Head(rows).name
         IN IF IsHeaderCell(name) THEN bp_table_cands(Tail(rows), cands)
            ELSE IF Truthy(name)
                    /\ Lower(name) \notin {Lower(cands[j].name) : j \in 1..Len(cands)}
              THEN bp_table_cands(Tail(rows), Append(cands, Candidate(name, NoneVal, NoneVal)))
            ELSE bp_table_cands(Tail(rows), cands)

\* the heading loop of _parse_ballotpedia_html, from body position i on:
\* the first "candidate" heading followed by a list or a table ends the loop
RECURSIVE bp_candidates(_, _, _)
bp_candidates(body, i, cands) ==
    IF i > Len(body) THEN cands
    ELSE IF body[i].tag = "h" /\ ContainsCandidate(body[i].text)
      THEN IF find_next(body, i, {"ul", "ol"}) # 0
             THEN cands \o parse_lis(body[find_next(body, i, {"ul", "ol"})].items, FALSE)
           ELSE IF find_next(body, i, {"table"}) # 0
             THEN bp_table_cands(body[find_next(body, i, {"table"})].items, cands)
           ELSE bp_candidates(body, i + 1, cands)
    ELSE bp_candidates(body, i + 1, cands)

\* links[:6]
ExtLinkCap == 6

RECURSIVE ext_links(_, _)
ext_links(hrefs, n) ==
    IF hrefs = <<>> \/ n >= ExtLinkCap THEN <<>>
    ELSE (IF IsHttp(Head(hrefs)) THEN <<Head(hrefs)>> ELSE <<>>)
         \o ext_links(Tail(hrefs), n + 1)

\* BallotpediaProvider._parse_ballotpedia_html on an accepted document
parse_ballotpedia_html(doc, res) ==
    LET pm == bp_first_date(doc.rows, TRUE)
        gm == bp_first_date(doc.rows, FALSE)
        race == res.race
    IN [res EXCEPT
          !.race = [race EXCEPT
             !.title = IF Truthy(doc.title) THEN StripSuffix(doc.title) ELSE @,
             !.primary_date = IF pm # NoneVal THEN pm ELSE @,
             !.election_date = IF gm # NoneVal THEN gm ELSE @,
             !.candidates = bp_candidates(doc.body, 1, @),
             !.research_links = @ \o ext_links(doc.ext, 0)],
          !.notes = IF Truthy(doc.rating)
                      THEN Append(@, "ratings: " \o doc.rating) ELSE @]

\* --------------------------------------------------------------- the network
\* What one requests.get can give: an exception (timeout, connection error),
\* or a response with a status code and a body.
Exc == [kind |-> "exception", status |-> 0, body |-> EmptyBody]
Resp(status, body) == [kind |-> "response", status |-> status, body |-> body]
Responses ==
    {Exc} \cup {Resp(200, b) : b \in Docs}
          \cup {Resp(204, EmptyBody), Resp(404, EmptyBody)}

\* resp.raise_for_status(): raises for the 4xx and 5xx codes
RaisesForStatus(status) == status >= 400

\* str(e) of what the try block of the Wikipedia provider can catch
ExcText(resp) ==
    IF resp.kind = "exception" THEN "connection error"
    ELSE IF RaisesForStatus(resp.status) THEN ToString(resp.status) \o " Client Error"
    ELSE "markup rejected"

\* ------------------------------------------------------------------- state
VARIABLES
    provider,       \* "wikipedia" or "ballotpedia": the provider that runs
    max_pages,      \* self.max_pages
    targets,        \* the argument of fetch_for_targets
    include_empty,  \* args.include_empty
    pc,             \* "loop", "titles" (the Ballotpedia title loop), "done", "reported"
    idx,            \* the position of the for loop over targets (1-based)
    pages_fetched,  \* the local counter of fetch_for_targets
    results,        \* the list fetch_for_targets returns
    res,            \* the FetchResult of the target in progress (Ballotpedia)
    titles,         \* its candidate titles
    tix,            \* the position of the for loop over titles (1-based)
    fetched,        \* its flag
    gets,           \* every requests.get issued: the target's position and the URL
    sleeps,         \* the number of polite_sleep calls
    report          \* main's results after the filter

vars == <<provider, max_pages, targets, include_empty, pc, idx, pages_fetched,
          results, res, titles, tix, fetched, gets, sleeps, report>>

\* polite_sleep: sleeps when the delay is positive; an exception of
\* time.sleep is swallowed.  One call is one unit of the sleeps counter.
polite_sleep(n) == n + 1

WIKI_REST(title) == "https://en.wikipedia.org/api/rest_v1/page/html/" \o title
BASE(title) == "https://ballotpedia.org/" \o title

\* the district as the providers store it
DistrictStr(d) == IF d # 0 THEN ToString(d) ELSE NoneVal

\* WikipediaProvider._research_queries
research_queries(race) ==
    LET label == race.state \o "%20" \o race.office \o "%20" \o ToString(race.cycle)
                 \o (IF Truthy(race.district)
                       THEN "%20district%20" \o race.district ELSE "")
    IN << "https://www.google.com/search?q=Ballotpedia+" \o label,
          "https://www.google.com/search?q=" \o race.state
              \o "%20Secretary%20of%20State%20elections%20calendar%20"
              \o ToString(race.cycle),
          "https://www.google.com/search?q=" \o label
              \o "%20official%20candidate%20list" >>

\* the race_id and Race the Wikipedia provider builds from an entry
WikiRaceId(entry) == Or(entry.id, Or(entry.title, Or(entry.url, "unknown")))
WikiRace(entry) ==
    Race(WikiRaceId(entry), entry.cycle, entry.office, entry.state,
         DistrictStr(entry.district))

\* the URL the Wikipedia provider fetches for an entry with a title or a URL
WikiFetchUrl(entry) ==
    IF Truthy(entry.title) THEN WIKI_REST(Quote(entry.title)) ELSE entry.url

\* (a variant that stops one page late)
BudgetExhausted_late(pf, mp) == pf > mp
\* if pages_fetched >= self.max_pages: break
BudgetExhausted(pf, mp) == pf >= mp

Init ==
    /\ provider \in {"wikipedia", "ballotpedia"}
    /\ max_pages \in 0..MaxPages
    /\ targets \in UNION {[1..n -> TargetsOf(provider)] : n \in 0..MaxTargets}
    /\ include_empty \in BOOLEAN
    /\ pc = "loop"
    /\ idx = 1
    /\ pages_fetched = 0
    /\ results = <<>>
    /\ res = FetchResult(NoneVal, Race(NoneVal, 0, NoneVal, NoneVal, NoneVal))
    /\ titles = <<>>
    /\ tix = 1
    /\ fetched = FALSE
    /\ gets = <<>>
    /\ sleeps = 0
    /\ report = <<>>

\* (a variant that skips the target and goes on with the next one)
WikiBreak_continue ==
    /\ provider = "wikipedia" /\ pc = "loop"
    /\ idx <= Len(targets)
    /\ BudgetExhausted(pages_fetched, max_pages)
    /\ idx' = idx + 1
    /\ UNCHANGED <<provider, max_pages, targets, include_empty, pc, pages_fetched,
                   results, res, titles, tix, fetched, gets, sleeps, report>>

\* for entry in targets: if pages_fetched >= self.max_pages: break
WikiBreak ==
    /\ provider = "wikipedia" /\ pc = "loop"
    /\ idx <= Len(targets)
    /\ BudgetExhausted(pages_fetched, max_pages)
    /\ pc' = "done"
    /\ UNCHANGED <<provider, max_pages, targets, include_empty, idx, pages_fetched,
                   results, res, titles, tix, fetched, gets, sleeps, report>>

\* (a variant that goes on without recording the outcome)
WikiNoSource_skip ==
    /\ provider = "wikipedia" /\ pc = "loop"
    /\ idx <= Len(targets)
    /\ ~BudgetExhausted(pages_fetched, max_pages)
    /\ ~Truthy(targets[idx].title) /\ ~Truthy(targets[idx].url)
    /\ idx' = idx + 1
    /\ UNCHANGED <<provider, max_pages, targets, include_empty, pc, pages_fetched,
                   results, res, titles, tix, fetched, gets, sleeps, report>>

\* (a variant without the continue: the GET of no URL fails and is recorded)
WikiNoSource_fallthrough ==
    /\ provider = "wikipedia" /\ pc = "loop"
    /\ idx <= Len(targets)
    /\ ~BudgetExhausted(pages_fetched, max_pages)
    /\ LET entry == targets[idx]
           r == FetchResult(WikiRaceId(entry), WikiRace(entry))
       IN /\ ~Truthy(entry.title) /\ ~Truthy(entry.url)
          /\ results' = Append(results,
                 [r EXCEPT !.errors = <<"No Wikipedia title or URL provided",
                                        "Fetch failed: Invalid URL">>])
    /\ idx' = idx + 1
    /\ UNCHANGED <<provider, max_pages, targets, include_empty, pc, pages_fetched,
                   res, titles, tix, fetched, gets, sleeps, report>>

\* the iteration for an entry with neither a title nor a URL
WikiNoSource ==
    /\ provider = "wikipedia" /\ pc = "loop"
    /\ idx <= Len(targets)
    /\ ~BudgetExhausted(pages_fetched, max_pages)
    /\ LET entry == targets[idx]
           r == FetchResult(WikiRaceId(entry), WikiRace(entry))
       IN /\ ~Truthy(entry.title) /\ ~Truthy(entry.url)
          /\ results' = Append(results,
                 [r EXCEPT !.errors = Append(@, "No Wikipedia title or URL provided")])
    /\ idx' = idx + 1
    /\ UNCHANGED <<provider, max_pages, targets, include_empty, pc, pages_fetched,
                   res, titles, tix, fetched, gets, sleeps, report>>

\* (a variant that records the source before it parses)
WikiTry_sourceFirst(entry, r, resp) ==
    LET withSource == [r EXCEPT !.race.sources.wikipedia = WikiFetchUrl(entry)]
    IN IF resp.kind = "exception" \/ RaisesForStatus(resp.status)
         THEN [res |-> [r EXCEPT !.errors = Append(@, "Fetch failed: " \o ExcText(resp))],
               counted |-> FALSE]
       ELSE IF ~resp.body.accepted
         THEN [res |-> [withSource EXCEPT
                          !.errors = Append(@, "Fetch failed: " \o ExcText(resp))],
               counted |-> TRUE]
       ELSE [res |-> parse_wikipedia_html(resp.body, withSource), counted |-> TRUE]

\* the outcome of the try block for one response: the result, and whether
\* the page counted (pages_fetched, polite_sleep)
WikiTry(entry, r, resp) ==
    IF resp.kind = "exception" \/ RaisesForStatus(resp.status)
      THEN [res |-> [r EXCEPT !.errors = Append(@, "Fetch failed: " \o ExcText(resp))],
            counted |-> FALSE]
    ELSE IF ~resp.body.accepted
      THEN [res |-> [r EXCEPT !.errors = Append(@, "Fetch failed: " \o ExcText(resp))],
            counted |-> TRUE]
    ELSE [res |-> [parse_wikipedia_html(resp.body, r) EXCEPT
                      !.race.sources.wikipedia = WikiFetchUrl(entry)],
          counted |-> TRUE]

\* the iteration for an entry with a title or a URL: one GET, the parse,
\* the research queries, results.append
WikiFetch(resp) ==
    /\ provider = "wikipedia" /\ pc = "loop"
    /\ idx <= Len(targets)
    /\ ~BudgetExhausted(pages_fetched, max_pages)
    /\ LET entry == targets[idx]
           out == WikiTry(entry, FetchResult(WikiRaceId(entry), WikiRace(entry)), resp)
       IN /\ Truthy(entry.title) \/ Truthy(entry.url)
          /\ gets' = Append(gets, [target |-> idx, url |-> WikiFetchUrl(entry)])
          /\ pages_fetched' = IF out.counted THEN pages_fetched + 1 ELSE pages_fetched
          /\ sleeps' = IF out.counted THEN polite_sleep(sleeps) ELSE sleeps
          /\ results' = Append(results,
                 [out.res EXCEPT !.race.research_links =
                                     @ \o research_queries(out.res.race)])
    /\ idx' = idx + 1
    /\ UNCHANGED <<provider, max_pages, targets, include_empty, pc, res, titles,
                   tix, fetched, report>>

\* the for loop over targets runs out: return results
WikiReturn ==
    /\ provider = "wikipedia" /\ pc = "loop"
    /\ idx > Len(targets)
    /\ pc' = "done"
    /\ UNCHANGED <<provider, max_pages, targets, include_empty, idx, pages_fetched,
                   results, res, titles, tix, fetched, gets, sleeps, report>>

\* (a variant that adds the generic title only when it has no other)
candidate_titles_bare_fallback(state_name, office, cycle, district) ==
    LET s == Underscore(state_name)
        c == ToString(cycle)
    IN CASE office = "PRESIDENT" ->
              << "United_States_presidential_election,_" \o c >>
         [] office = "SENATE" ->
              << c \o "_United_States_Senate_election_in_" \o s,
                 "United_States_Senate_election_in_" \o s \o ",_" \o c >>
         [] office = "GOVERNOR" ->
              << s \o "_gubernatorial_election,__" \o c,
                 c \o "_" \o s \o "_gubernatorial_election" >>
         [] office = "HOUSE" ->
              (IF Truthy(district)
                 THEN << c \o "_United_States_House_of_Representatives_election_in_"
                           \o s \o "'s_" \o district \o "th_congressional_district" >>
                 ELSE << >>)
              \o << c \o "_United_States_House_of_Representatives_elections_in_" \o s >>
         [] OTHER -> << c \o "_elections_in_" \o s >>

\* BallotpediaProvider._candidate_titles
candidate_titles(state_name, office, cycle, district) ==
    LET s == Underscore(state_name)
        c == ToString(cycle)
        specific ==
          CASE office = "PRESIDENT" ->
                 << "United_States_presidential_election,_" \o c >>
            [] office = "SENATE" ->
                 << c \o "_United_States_Senate_election_in_" \o s,
                    "United_States_Senate_election_in_" \o s \o ",_" \o c >>
            [] office = "GOVERNOR" ->
                 << s \o "_gubernatorial_election,__" \o c,
                    c \o "_" \o s \o "_gubernatorial_election" >>
            [] office = "HOUSE" ->
                 (IF Truthy(district)
                    THEN << c \o "_United_States_House_of_Representatives_election_in_"
                              \o s \o "'s_" \o district \o "th_congressional_district" >>
                    ELSE << >>)
                 \o << c \o "_United_States_House_of_Representatives_elections_in_" \o s >>
            [] OTHER -> << >>
    IN specific \o << c \o "_elections_in_" \o s >>

\* the race_id and Race the Ballotpedia provider builds from an entry
BpRaceId(entry) ==
    Or(entry.id, entry.state \o "-" \o entry.office \o "-" \o ToString(entry.cycle))
BpRace(entry) ==
    Race(BpRaceId(entry), entry.cycle, Upper(entry.office), Upper(entry.state),
         DistrictStr(entry.district))
BpTitles(entry) ==
    candidate_titles(STATE_ABBR(Upper(entry.state)), Upper(entry.office),
                     entry.cycle, DistrictStr(entry.district))

\* for entry in targets: if pages_fetched >= self.max_pages: break
BpBreak ==
    /\ provider = "ballotpedia" /\ pc = "loop"
    /\ idx <= Len(targets)
    /\ BudgetExhausted(pages_fetched, max_pages)
    /\ pc' = "done"
    /\ UNCHANGED <<provider, max_pages, targets, include_empty, idx, pages_fetched,
                   results, res, titles, tix, fetched, gets, sleeps, report>>

\* the head of one iteration: the Race, the FetchResult, the titles to try
BpStart ==
    /\ provider = "ballotpedia" /\ pc = "loop"
    /\ idx <= Len(targets)
    /\ ~BudgetExhausted(pages_fetched, max_pages)
    /\ res' = FetchResult(BpRaceId(targets[idx]), BpRace(targets[idx]))
    /\ titles' = BpTitles(targets[idx])
    /\ tix' = 1
    /\ fetched' = FALSE
    /\ pc' = "titles"
    /\ UNCHANGED <<provider, max_pages, targets, include_empty, idx, pages_fetched,
                   results, gets, sleeps, report>>

\* BallotpediaProvider._get for one response: whether it raises, whether it
\* returns None, the text it returns otherwise (a body), and whether
\* polite_sleep ran
get(resp) ==
    IF resp.kind = "exception"
      THEN [raised |-> TRUE, none |-> FALSE, html |-> EmptyBody, slept |-> FALSE]
    ELSE IF resp.status # 200
      THEN [raised |-> FALSE, none |-> TRUE, html |-> EmptyBody, slept |-> FALSE]
    ELSE [raised |-> FALSE, none |-> FALSE, html |-> resp.body, slept |-> TRUE]

\* (a variant that asks for the same title again after an exception)
BpTry_retry(resp) ==
    /\ provider = "ballotpedia" /\ pc = "titles"
    /\ ~fetched /\ tix <= Len(titles)
    /\ LET url == BASE(titles[tix])
           g == get(resp)
           withSource == [res EXCEPT !.race.sources.ballotpedia = url]
       IN /\ gets' = Append(gets, [target |-> idx, url |-> url])
          /\ sleeps' = IF g.slept THEN polite_sleep(sleeps) ELSE sleeps
          /\ tix' = IF g.raised THEN tix ELSE tix + 1
          /\ IF g.raised
               THEN /\ res' = [res EXCEPT !.notes =
                                 Append(@, "ballotpedia try failed: " \o ExcText(resp))]
                    /\ UNCHANGED <<pages_fetched, fetched>>
             ELSE IF g.none \/ g.html = EmptyBody
               THEN UNCHANGED <<res, pages_fetched, fetched>>
             ELSE IF ~g.html.accepted
               THEN /\ pages_fetched' = pages_fetched + 1
                    /\ res' = [withSource EXCEPT !.notes =
                                 Append(@, "ballotpedia try failed: " \o ExcText(resp))]
                    /\ UNCHANGED fetched
             ELSE /\ pages_fetched' = pages_fetched + 1
                  /\ res' = parse_ballotpedia_html(g.html, withSource)
                  /\ fetched' = TRUE
    /\ UNCHANGED <<provider, max_pages, targets, include_empty, pc, idx, results,
                   titles, report>>

\* one pass of the for loop over titles: one GET and what follows it
BpTry(resp) ==
    /\ provider = "ballotpedia" /\ pc = "titles"
    /\ ~fetched /\ tix <= Len(titles)
    /\ LET url == BASE(titles[tix])
           g == get(resp)
           withSource == [res EXCEPT !.race.sources.ballotpedia = url]
       IN /\ gets' = Append(gets, [target |-> idx, url |-> url])
          /\ sleeps' = IF g.slept THEN polite_sleep(sleeps) ELSE sleeps
          /\ IF g.raised
               THEN /\ res' = [res EXCEPT !.notes =
                                 Append(@, "ballotpedia try failed: " \o ExcText(resp))]
                    /\ UNCHANGED <<pages_fetched, fetched>>
             ELSE IF g.none \/ g.html = EmptyBody
               THEN UNCHANGED <<res, pages_fetched, fetched>>
             ELSE IF ~g.html.accepted
               THEN /\ pages_fetched' = pages_fetched + 1
                    /\ res' = [withSource EXCEPT !.notes =
                                 Append(@, "ballotpedia try failed: " \o ExcText(resp))]
                    /\ UNCHANGED fetched
             ELSE /\ pages_fetched' = pages_fetched + 1
                  /\ res' = parse_ballotpedia_html(g.html, withSource)
                  /\ fetched' = TRUE
    /\ tix' = tix + 1
    /\ UNCHANGED <<provider, max_pages, targets, include_empty, pc, idx, results,
                   titles, report>>

\* after the title loop (a break, or no title left): the error when nothing
\* was fetched, results.append
BpFinish ==
    /\ provider = "ballotpedia" /\ pc = "titles"
    /\ fetched \/ tix > Len(titles)
    /\ results' = Append(results,
           IF ~fetched THEN [res EXCEPT !.errors = Append(@, "No Ballotpedia page found")]
           ELSE res)
    /\ idx' = idx + 1
    /\ pc' = "loop"
    /\ UNCHANGED <<provider, max_pages, targets, include_empty, pages_fetched, res,
                   titles, tix, fetched, gets, sleeps, report>>

\* the for loop over targets runs out: return results
BpReturn ==
    /\ provider = "ballotpedia" /\ pc = "loop"
    /\ idx > Len(targets)
    /\ pc' = "done"
    /\ UNCHANGED <<provider, max_pages, targets, include_empty, idx, pages_fetched,
                   results, res, titles, tix, fetched, gets, sleeps, report>>

\* (a variant that drops an outcome only when it is errored and empty)
keep_errored_and_empty(fr) ==
    ~(fr.errors # <<>> /\ fr.race.candidates = <<>>
        /\ ~Truthy(fr.race.election_date) /\ ~Truthy(fr.race.primary_date))

\* main's _keep: an errored outcome is dropped, and so is an empty one
keep(fr) ==
    IF fr.errors # <<>> THEN FALSE
    ELSE fr.race.candidates # <<>> \/ Truthy(fr.race.election_date)
         \/ Truthy(fr.race.primary_date)

\* main: results = provider.fetch_for_targets(targets) with the Wikipedia
\* provider, then the filter unless --include-empty
Filter ==
    /\ provider = "wikipedia" /\ pc = "done"
    /\ report' = IF ~include_empty THEN SelectSeq(results, keep) ELSE results
    /\ pc' = "reported"
    /\ UNCHANGED <<provider, max_pages, targets, include_empty, idx, pages_fetched,
                   results, res, titles, tix, fetched, gets, sleeps>>

Next ==
    \/ WikiBreak
    \/ WikiNoSource
    \/ \E resp \in Responses : WikiFetch(resp)
    \/ WikiReturn
    \/ BpBreak
    \/ BpStart
    \/ \E resp \in Responses : BpTry(resp)
    \/ BpFinish
    \/ BpReturn
    \/ Filter

Spec == Init /\ [][Next]_vars

\* ------------------------------------------------------------------- claims
Finished == pc \in {"done", "reported"}
\* the run ended with the budget break, some target not started
StoppedByBudget == Finished /\ idx <= Len(targets)

\* the descriptor fields of the Race the running provider builds from an entry
ExpectedRace(entry) == IF provider = "wikipedia" THEN WikiRace(entry) ELSE BpRace(entry)
BuiltFrom(fr, entry) ==
    /\ fr.race_id = ExpectedRace(entry).id
    /\ fr.race.id = ExpectedRace(entry).id
    /\ fr.race.cycle = entry.cycle
    /\ fr.race.office = ExpectedRace(entry).office
    /\ fr.race.state = ExpectedRace(entry).state
    /\ fr.race.district = ExpectedRace(entry).district

\* the positions of the GETs issued for target i
GetsOf(i) == {k \in 1..Len(gets) : gets[k].target = i}

\* C1: whatever the fetches do, the outcomes collected so far are one per
\* target handled, the i-th built from the i-th target, and a run that the
\* budget did not stop returns one outcome for every target.
C1_OnePerTargetInOrder ==
    /\ Len(results) = idx - 1
    /\ \A i \in 1..Len(results) : BuiltFrom(results[i], targets[i])
    /\ (Finished /\ ~StoppedByBudget) => Len(results) = Len(targets)

\* a full-length run that the budget did not stop, with an errored outcome
\* first and a clean one after it
C1_Witness ==
    /\ pc = "done" /\ ~StoppedByBudget /\ Len(targets) = MaxTargets
    /\ targets[1] # targets[2]
    /\ results[1].errors # <<>> /\ results[2].errors = <<>>

\* C2 as stated: with more targets than budget, no more GETs than the budget.
C2_AttemptsWithinBudget ==
    Len(targets) > max_pages => Len(gets) <= max_pages

\* an outcome made from a page that was fetched and parsed
FromPage(fr) ==
    /\ fr.errors = <<>>
    /\ (IF provider = "wikipedia" THEN fr.race.sources.wikipedia
        ELSE fr.race.sources.ballotpedia) # NoneVal

\* C2 amended: the budget bounds the outcomes made from a fetched and parsed
\* page, not the GETs: a GET that fails uses no budget.
C2_PagesWithinBudget ==
    Len(targets) > max_pages =>
        Cardinality({i \in 1..Len(results) : FromPage(results[i])}) <= max_pages

\* the budget is used up by as many pages, after a GET that failed
C2_Witness ==
    /\ Finished /\ Len(targets) > max_pages /\ max_pages > 0
    /\ Len(gets) > max_pages
    /\ Cardinality({i \in 1..Len(results) : FromPage(results[i])}) = max_pages

\* C3: the counter of successful fetches never passes max_pages.
C3_CounterWithinBudget == pages_fetched <= max_pages

\* C4: when the budget is exhausted as a target is about to start, the next
\* step ends the run with the outcomes and the GETs as they are; a run that
\* ended so has an outcome for each target before the stop and none after,
\* no GET for a later target, and nothing changes afterwards.
C4_StopStep ==
    (pc = "loop" /\ idx <= Len(targets) /\ pages_fetched >= max_pages)
        => (pc' = "done" /\ results' = results /\ gets' = gets /\ idx' = idx)
C4_AfterStop == Finished => (results' = results /\ gets' = gets)
C4_Stopped ==
    StoppedByBudget =>
        /\ Len(results) = idx - 1
        /\ Len(results) < Len(targets)
        /\ \A i \in 1..Len(results) : BuiltFrom(results[i], targets[i])
        /\ \A k \in 1..Len(gets) : gets[k].target < idx
C4_BudgetStopsRun ==
    /\ [][C4_StopStep]_vars
    /\ [][C4_AfterStop]_vars
    /\ []C4_Stopped

\* a run stopped by the budget after one target of two, one GET issued
C4_Witness ==
    /\ StoppedByBudget /\ max_pages > 0 /\ Len(targets) = MaxTargets
    /\ Len(results) = MaxTargets - 1 /\ Len(gets) >= 1

\* the Wikipedia entries with neither a title nor a URL
NoSource(entry) == ~Truthy(entry.title) /\ ~Truthy(entry.url)
Unpopulated(race) ==
    /\ race.title = NoneVal /\ race.primary_date = NoneVal
    /\ race.election_date = NoneVal /\ race.candidates = <<>>

\* C5: a Wikipedia target with neither title nor URL gets one outcome whose
\* only error is "No Wikipedia title or URL provided", with title, dates and
\* candidates unset and no GET; the step leaves the page counter alone and
\* goes on to the next target.
C5_Outcome ==
    provider = "wikipedia" =>
        \A i \in 1..Len(results) : NoSource(targets[i]) =>
            /\ results[i].errors = <<"No Wikipedia title or URL provided">>
            /\ Unpopulated(results[i].race)
            /\ GetsOf(i) = {}
C5_Step ==
    (/\ provider = "wikipedia" /\ pc = "loop" /\ idx <= Len(targets)
     /\ pages_fetched < max_pages /\ NoSource(targets[idx]))
        => /\ pages_fetched' = pages_fetched /\ gets' = gets
           /\ Len(results') = Len(results) + 1
           /\ idx' = idx + 1 /\ pc' = "loop"
C5_MissingSource == []C5_Outcome /\ [][C5_Step]_vars

\* a target without title or URL handled first, and the next target fetched
C5_Witness ==
    /\ provider = "wikipedia" /\ Len(results) = 2 /\ NoSource(targets[1])
    /\ results[1].errors # <<>> /\ pages_fetched = 1 /\ GetsOf(2) # {}

FetchFailedErrors ==
    {"Fetch failed: " \o t : t \in {"connection error", "404 Client Error",
                                      "markup rejected"}}
ExtractorRan(fr) ==
    \/ fr.race.candidates # <<>>
    \/ \E n \in 1..Len(fr.notes) : fr.notes[n] = "No candidates parsed; structure may differ"

\* C6: a Wikipedia target with a title or URL has exactly one GET, of its
\* URL; an outcome with an error has the one "Fetch failed" error, nothing
\* populated and no source; an outcome without error went through the
\* extractor and has the fetched URL as its source.
C6_OneFetchAllOrNothing ==
    provider = "wikipedia" =>
        \A i \in 1..Len(results) : ~NoSource(targets[i]) =>
            /\ Cardinality(GetsOf(i)) = 1
            /\ \A k \in GetsOf(i) : gets[k].url = WikiFetchUrl(targets[i])
            /\ results[i].errors # <<>> =>
                  /\ Len(results[i].errors) = 1
                  /\ results[i].errors[1] \in FetchFailedErrors
                  /\ Unpopulated(results[i].race)
                  /\ results[i].race.sources.wikipedia = NoneVal
            /\ results[i].errors = <<>> =>
                  /\ ExtractorRan(results[i])
                  /\ \A k \in GetsOf(i) : results[i].race.sources.wikipedia = gets[k].url

\* a page that was fetched and then rejected by the parser, and a page that
\* was fetched and parsed
C6_Witness ==
    /\ provider = "wikipedia" /\ Len(results) = 2
    /\ results[1].errors = <<"Fetch failed: markup rejected">>
    /\ pages_fetched = 2
    /\ results[2].errors = <<>> /\ results[2].race.candidates # <<>>

\* C7: the titles of a Ballotpedia target are tried in the order generated,
\* and once a page has been fetched for the target no further title is
\* requested.
C7_InOrder ==
    (provider = "ballotpedia" /\ pc = "titles") =>
        /\ Len(gets) >= tix - 1
        /\ \A j \in 1..(tix - 1) :
              gets[Len(gets) - (tix - 1) + j] = [target |-> idx, url |-> BASE(titles[j])]
C7_StopAfterSuccess ==
    (provider = "ballotpedia" /\ pc = "titles"
       /\ res.race.sources.ballotpedia # NoneVal) => gets' = gets
C7_FirstSuccessWins == []C7_InOrder /\ [][C7_StopAfterSuccess]_vars

\* C8: a Ballotpedia outcome carries no error but "No Ballotpedia page
\* found", which is there, once, exactly when no title gave a page; an
\* outcome with the error had every title tried; every target started has
\* its outcome appended.
C8_NotFoundIffNoPage ==
    provider = "ballotpedia" =>
        /\ pc = "loop" => Len(results) = idx - 1
        /\ \A i \in 1..Len(results) :
              /\ results[i].errors =
                    (IF results[i].race.sources.ballotpedia = NoneVal
                       THEN <<"No Ballotpedia page found">> ELSE <<>>)
              /\ results[i].errors # <<>> =>
                    Cardinality(GetsOf(i)) = Len(BpTitles(targets[i]))

\* ------------------------------------------- the title resolver on its own
\* _candidate_titles applied to one argument list drawn from these sets
TitleOffices == {"PRESIDENT", "SENATE", "GOVERNOR", "HOUSE", "TREASURER", "senate", ""}
TitleStates == {"California", "New York", "ZZ"}
TitleCycles == {2024, 2026}
TitleDistricts == {NoneVal, "", "3", "12"}

TitlesInit ==
    /\ provider = "ballotpedia"
    /\ targets \in {<<[state_name |-> st, office |-> o, cycle |-> c, district |-> d]>> :
                      st \in TitleStates, o \in TitleOffices, c \in TitleCycles,
                      d \in TitleDistricts}
    /\ pc = "call"
    /\ titles = <<>>
    /\ max_pages = 0 /\ include_empty = FALSE /\ idx = 1 /\ pages_fetched = 0
    /\ results = <<>> /\ tix = 1 /\ fetched = FALSE /\ gets = <<>> /\ sleeps = 0
    /\ report = <<>>
    /\ res = FetchResult(NoneVal, Race(NoneVal, 0, NoneVal, NoneVal, NoneVal))

TitlesCall ==
    /\ pc = "call"
    /\ titles' = candidate_titles(targets[1].state_name, targets[1].office,
                                  targets[1].cycle, targets[1].district)
    /\ pc' = "returned"
    /\ UNCHANGED <<provider, max_pages, targets, include_empty, idx, pages_fetched,
                   results, res, tix, fetched, gets, sleeps, report>>

TitlesNext == TitlesCall
SpecTitles == TitlesInit /\ [][TitlesNext]_vars

\* the number of office-specific titles the resolver is to give
SpecificCount(office, district) ==
    CASE office = "PRESIDENT" -> 1
      [] office \in {"SENATE", "GOVERNOR"} -> 2
      [] office = "HOUSE" -> IF Truthy(district) THEN 2 ELSE 1
      [] OTHER -> 0

\* C9: the resolver's sequence is never empty, ends in the generic
\* "{cycle}_elections_in_{state}" title, which occurs nowhere before, has the
\* office-specific titles before it, and for HOUSE with a district gives the
\* district title first and the state-wide title second.
C9_GenericFallbackLast ==
    pc = "returned" =>
        LET a == targets[1]
            generic == ToString(a.cycle) \o "_elections_in_" \o Underscore(a.state_name)
            house == ToString(a.cycle)
                       \o "_United_States_House_of_Representatives_election"
        IN /\ Len(titles) >= 1
           /\ titles[Len(titles)] = generic
           /\ \A j \in 1..(Len(titles) - 1) : titles[j] # generic
           /\ Len(titles) = SpecificCount(a.office, a.district) + 1
           /\ (a.office = "HOUSE" /\ Truthy(a.district)) =>
                 /\ titles[1] = house \o "_in_" \o Underscore(a.state_name) \o "'s_"
                                  \o a.district \o "th_congressional_district"
                 /\ titles[2] = house \o "s_in_" \o Underscore(a.state_name)

\* the resolver has answered for a HOUSE race with a district in a state
\* whose name has a space
C9_Witness ==
    /\ pc = "returned" /\ targets[1].office = "HOUSE" /\ targets[1].district = "12"
    /\ targets[1].state_name = "New York" /\ Len(titles) = 3

\* ------------------------------------------------------------ the filter
HasData(fr) ==
    \/ fr.race.candidates # <<>>
    \/ fr.race.election_date \notin {NoneVal, ""}
    \/ fr.race.primary_date \notin {NoneVal, ""}
InReport(fr) == \E j \in 1..Len(report) : report[j] = fr

\* C10 as stated: without --include-empty an outcome is left out only if it
\* has an error and no candidates and no dates; with it nothing is left out.
C10_ExcludedOnlyIfErroredAndEmpty ==
    pc = "reported" =>
        IF include_empty THEN report = results
        ELSE \A i \in 1..Len(results) :
                (results[i].errors = <<>> \/ HasData(results[i])) => InReport(results[i])

\* C10 amended: without --include-empty the report is the outcomes, in
\* order, that have no error and have candidates or a date: an outcome is
\* left out if it has an error or is empty.
C10_ExcludedIfErroredOrEmpty ==
    pc = "reported" =>
        IF include_empty THEN report = results
        ELSE /\ \A i \in 1..Len(results) :
                   InReport(results[i]) <=> (results[i].errors = <<>> /\ HasData(results[i]))
             /\ Len(report) = Cardinality({i \in 1..Len(results) :
                                  results[i].errors = <<>> /\ HasData(results[i])})
             /\ \A j \in 1..Len(report), k \in 1..Len(report) :
                   j < k => \E a \in 1..Len(results), b \in 1..Len(results) :
                               a < b /\ results[a] = report[j] /\ results[b] = report[k]

\* a filtered report that keeps a populated outcome and leaves out an
\* outcome that has no error and no data
C10_Witness ==
    /\ pc = "reported" /\ ~include_empty /\ Len(results) = 2 /\ Len(report) = 1
    /\ results[1].errors = <<>> /\ ~HasData(results[1])
    /\ report[1] = results[2]

\* ---------------------------------------------------------------- rendering
\* '; '.join(xs)
RECURSIVE join(_)
join(xs) ==
    IF xs = <<>> THEN ""
    ELSE IF Len(xs) = 1 THEN xs[1]
    ELSE xs[1] \o "; " \o join(Tail(xs))

\* the separator before a website: the character U+2014 (em dash) in the
\* code, written here in ASCII
EmDash == "--"

\* the lines of the candidates
RECURSIVE candidate_lines(_)
candidate_lines(cs) ==
    IF cs = <<>> THEN <<>>
    ELSE << "    - " \o Head(cs).name
              \o (IF Truthy(Head(cs).party) THEN " (" \o Head(cs).party \o ")" ELSE "")
              \o (IF Truthy(Head(cs).website) THEN " " \o EmDash \o " " \o Head(cs).website ELSE "") >>
         \o candidate_lines(Tail(cs))

RECURSIVE link_lines(_)
link_lines(ls) ==
    IF ls = <<>> THEN <<>> ELSE << "    - " \o Head(ls) >> \o link_lines(Tail(ls))

\* report._race_text_block
race_text_block(race, fr) ==
    << "- " \o race.state \o " " \o race.office \o " (" \o ToString(race.cycle) \o ")"
         \o (IF Truthy(race.district) THEN ", District " \o race.district ELSE "") >>
    \o (IF Truthy(race.title) THEN << "  Title: " \o race.title >> ELSE <<>>)
    \o (IF Truthy(race.primary_date) THEN << "  Primary: " \o race.primary_date >> ELSE <<>>)
    \o (IF Truthy(race.election_date) THEN << "  General: " \o race.election_date >> ELSE <<>>)
    \o (IF race.candidates # <<>>
          THEN << "  Candidates:" >> \o candidate_lines(race.candidates)
          ELSE << "  Candidates: Unknown (see research links)" >>)
    \o (IF Truthy(race.sources.wikipedia)
          THEN << "  Wikipedia: " \o race.sources.wikipedia >> ELSE <<>>)
    \o (IF fr.notes # <<>> THEN << "  Notes: " \o join(fr.notes) >> ELSE <<>>)
    \o (IF fr.errors # <<>> THEN << "  Errors: " \o join(fr.errors) >> ELSE <<>>)
    \o (IF race.research_links # <<>>
          THEN << "  Research:" >> \o link_lines(race.research_links) ELSE <<>>)

HasLine(lines, l) == \E n \in 1..Len(lines) : lines[n] = l

\* the responses whose status is not 200
Non200 == {r \in Responses : r.kind = "response" /\ r.status # 200}
\* the outcome a step has just appended
Last(seq) == seq[Len(seq)]

\* C11: when the GET of a target of the provider main runs is answered with
\* a status other than 200, the outcome has no candidates, no dates and at
\* least one error, the filter drops it, and rendered unfiltered it shows
\* "Candidates: Unknown (see research links)".
C11_Step ==
    (provider = "wikipedia" /\ \E resp \in Non200 : WikiFetch(resp)) =>
        LET fr == Last(results')
        IN /\ fr.race.candidates = <<>>
           /\ fr.race.election_date = NoneVal /\ fr.race.primary_date = NoneVal
           /\ fr.errors # <<>>
           /\ ~keep(fr)
           /\ HasLine(race_text_block(fr.race, fr),
                      "  Candidates: Unknown (see research links)")
C11_Non200Outcome == [][C11_Step]_vars

\* ------------------------------------------------- the extractors on a page
\* The two parsers applied to one page each: targets holds the page, res the
\* outcome the parser fills, pc whether it has returned or raised.
ListItems ==
    <<Li("Jane Doe", "D", <<"https://en.wikipedia.org/wiki/Jane_Doe",
                            "https://janedoe.example/">>),
      Li("JANE DOE", "D", <<>>),
      Li("John Roe", "R", <<"/wiki/John_Roe">>)>>
ParseTitles == {NoneVal, "2024 election - Ballotpedia"}
ParseRows ==
    { <<>>,
      <<Row(TRUE, FALSE, "November 5, 2024")>>,
      <<Row(TRUE, FALSE, "November 5, 2024"), Row(TRUE, FALSE, "November 2024")>>,
      <<Row(TRUE, FALSE, "November 2024"), Row(FALSE, TRUE, "March 5, 2024")>>,
      <<Row(FALSE, TRUE, "March 5, 2024"), Row(TRUE, TRUE, "November 5, 2024")>>,
      <<Row(TRUE, FALSE, NoneVal), Row(FALSE, TRUE, NoneVal)>> }
ParseBodies ==
    { <<>>,
      <<H("Results")>>,
      <<H("Candidates"), UL(ListItems)>>,
      <<H("Declared candidates"), UL(ListItems)>>,
      <<H("Candidates"), TABLE(<<Li("Candidate", NoneVal, <<>>)>> \o ListItems)>>,
      <<UL(ListItems)>>,
      <<H("Candidates"), UL(<<Li("Jane Doe", "D", <<"https://janedoe.example/">>)>>),
        H("Candidates and results"), UL(<<Li("JANE DOE", "D", <<>>), Li("John Roe", "R", <<>>)>>)>>,
      <<H("Candidates")>> }
ParseDocs ==
    {RejectedBody} \cup
    {Doc(TRUE, t, rows, body, NoneVal, <<>>) :
        t \in ParseTitles, rows \in ParseRows, body \in ParseBodies}

ParseInit ==
    /\ provider \in {"wikipedia", "ballotpedia"}
    /\ targets \in {<<d>> : d \in ParseDocs}
    /\ pc = "parse"
    /\ res = FetchResult("r1", Race("r1", 2024, "SENATE", "CA", NoneVal))
    /\ max_pages = 0 /\ include_empty = FALSE /\ idx = 1 /\ pages_fetched = 0
    /\ results = <<>> /\ titles = <<>> /\ tix = 1 /\ fetched = FALSE
    /\ gets = <<>> /\ sleeps = 0 /\ report = <<>>

\* BeautifulSoup(html, "html.parser") raises: the parser sets nothing
ParseRaise ==
    /\ pc = "parse"
    /\ ~targets[1].accepted
    /\ pc' = "raised"
    /\ UNCHANGED <<provider, max_pages, targets, include_empty, idx, pages_fetched,
                   results, res, titles, tix, fetched, gets, sleeps, report>>

ParseWiki ==
    /\ pc = "parse"
    /\ provider = "wikipedia"
    /\ targets[1].accepted
    /\ res' = parse_wikipedia_html(targets[1], res)
    /\ pc' = "parsed"
    /\ UNCHANGED <<provider, max_pages, targets, include_empty, idx, pages_fetched,
                   results, titles, tix, fetched, gets, sleeps, report>>

ParseBp ==
    /\ pc = "parse"
    /\ provider = "ballotpedia"
    /\ targets[1].accepted
    /\ res' = parse_ballotpedia_html(targets[1], res)
    /\ pc' = "parsed"
    /\ UNCHANGED <<provider, max_pages, targets, include_empty, idx, pages_fetched,
                   results, titles, tix, fetched, gets, sleeps, report>>

ParseNext == ParseRaise \/ ParseWiki \/ ParseBp
SpecParse == ParseInit /\ [][ParseNext]_vars

Names(cs) == [j \in 1..Len(cs) |-> cs[j].name]
NoCaseDuplicates(cs) ==
    \A j, k \in 1..Len(cs) : Lower(cs[j].name) = Lower(cs[k].name) => j = k

\* C12: the candidates a parser has extracted hold no two names equal
\* ignoring case, and the list items Jane Doe, JANE DOE, John Roe under a
\* candidates heading or as a short list give Jane Doe then John Roe.
C12_Deduplicated ==
    pc = "parsed" =>
        /\ NoCaseDuplicates(res.race.candidates)
        /\ res.race.candidates # <<>> =>
              Names(res.race.candidates) = <<"Jane Doe", "John Roe">>

Elems(seq) == {seq[n] : n \in 1..Len(seq)}

\* C13: every outcome of either provider, whatever happened to its target
\* (no title and no URL, a failed fetch, no page found, a parsed page),
\* carries the research search queries of its race among its research links.
C13_ResearchLinksAlways ==
    \A i \in 1..Len(results) :
        /\ results[i].race.research_links # <<>>
        /\ Elems(research_queries(results[i].race))
              \subseteq Elems(results[i].race.research_links)

\* the responses that deliver a page
Got200 == {r \in Responses : r.kind = "response" /\ r.status = 200}

\* C14: whatever the extractor does with a page that was fetched, nothing
\* of it surfaces as a target-level error: the Wikipedia outcome of a GET
\* answered 200 has no error, a Ballotpedia outcome that records a fetched
\* page has no error, and the run goes on to the next target.
C14_WikiStep ==
    (\E resp \in Got200 : WikiFetch(resp)) =>
        /\ Last(results').errors = <<>>
        /\ idx' = idx + 1
C14_BpOutcome ==
    provider = "ballotpedia" =>
        \A i \in 1..Len(results) :
            results[i].race.sources.ballotpedia # NoneVal => results[i].errors = <<>>
C14_ExtractorContained == []C14_BpOutcome /\ [][C14_WikiStep]_vars

\* the note of the claim; the Wikipedia parser writes it with a capital N
NoCandidatesNotes ==
    {"no candidates parsed; structure may differ",
     "No candidates parsed; structure may differ"}

\* C15: a parser of either provider that has read a page and found no
\* candidate leaves the note "no candidates parsed; structure may differ"
\* on the outcome, with an empty candidate list and no error.
C15_NoCandidatesNote ==
    (pc = "parsed" /\ res.race.candidates = <<>>) =>
        /\ Elems(res.notes) \cap NoCandidatesNotes # {}
        /\ res.errors = <<>>

\* the date a row yields for a provider: _extract_date takes "Month Day,
\* Year" and "Month Year", the Ballotpedia patterns "Month Day, Year" only
YieldsDate(row) ==
    IF provider = "wikipedia" THEN Truthy(row.date) ELSE IsFullDate(row.date)

\* the date of the first row in document order that carries the label and
\* yields a date, or None
RECURSIVE FirstMatch(_, _)
FirstMatch(rows, primary) ==
    IF rows = <<>> THEN NoneVal
    ELSE IF (IF primary THEN Head(rows).primary ELSE Head(rows).election)
            /\ YieldsDate(Head(rows))
      THEN Head(rows).date
    ELSE FirstMatch(Tail(rows), primary)

\* C16: a parser that has returned has set each date to the first match in
\* document order (for Wikipedia, over the infobox rows), a later match
\* never replacing it, and has left a date with no match at None, never "".
C16_FirstMatchWins ==
    pc = "parsed" =>
        /\ res.race.election_date = FirstMatch(targets[1].rows, FALSE)
        /\ res.race.primary_date = FirstMatch(targets[1].rows, TRUE)
        /\ res.race.election_date # "" /\ res.race.primary_date # ""

\* the responses of a failed fetch: an exception, a status other than 200
FailedFetch == Responses \ Got200

\* C17: a GET answered 200 is followed by one polite delay, taken before any
\* later GET; a GET that fails (an exception, a status other than 200) and a
\* target that is skipped (no title and no URL, budget exhausted) add none.
C17_Step ==
    /\ (\E resp \in Got200 : WikiFetch(resp) \/ BpTry(resp)) => sleeps' = sleeps + 1
    /\ (\E resp \in FailedFetch : WikiFetch(resp) \/ BpTry(resp)) => sleeps' = sleeps
    /\ (WikiNoSource \/ WikiBreak \/ BpBreak) => sleeps' = sleeps
C17_OneDelayPerFetch == [][C17_Step]_vars

\* the position of the k-th GET among the GETs of its target
NthOfTarget(k) == Cardinality({k2 \in GetsOf(gets[k].target) : k2 <= k})

\* C18: no URL is asked for twice for one target; the GETs go through the
\* targets in order, one per Wikipedia target, and for a Ballotpedia target
\* through its titles in order, each once; a failed GET is followed by the
\* next target (Wikipedia) or the next title (Ballotpedia).
C18_EachUrlOnce ==
    /\ \A k1, k2 \in 1..Len(gets) :
          /\ (gets[k1].target = gets[k2].target /\ gets[k1].url = gets[k2].url) => k1 = k2
          /\ k1 < k2 => gets[k1].target <= gets[k2].target
    /\ \A k \in 1..Len(gets) :
          IF provider = "wikipedia"
            THEN /\ NthOfTarget(k) = 1
                 /\ gets[k].url = WikiFetchUrl(targets[gets[k].target])
            ELSE /\ NthOfTarget(k) <= Len(BpTitles(targets[gets[k].target]))
                 /\ gets[k].url = BASE(BpTitles(targets[gets[k].target])[NthOfTarget(k)])
C18_AfterFailure ==
    /\ (\E resp \in FailedFetch : WikiFetch(resp)) => idx' = idx + 1
    /\ (\E resp \in FailedFetch : BpTry(resp)) => (tix' = tix + 1 /\ idx' = idx)
C18_NoRetries == []C18_EachUrlOnce /\ [][C18_AfterFailure]_vars

\* a Ballotpedia target whose three titles were each asked for once and all
\* failed, the first with an exception
C18_Witness ==
    /\ provider = "ballotpedia" /\ pc = "done"
    /\ \E i \in 1..Len(results) :
          /\ Cardinality(GetsOf(i)) = 3
          /\ results[i].notes = <<"ballotpedia try failed: connection error">>
          /\ results[i].errors = <<"No Ballotpedia page found">>

HasWikiSource(fr) == fr.race.sources.wikipedia # NoneVal

\* C19: a Wikipedia outcome has an empty error list exactly when its race
\* records a "wikipedia" source, so none has both an error and the source,
\* and the pages counted are never fewer than the outcomes with a source.
C19_ErrorXorSource ==
    provider = "wikipedia" =>
        /\ \A i \in 1..Len(results) : (results[i].errors = <<>>) <=> HasWikiSource(results[i])
        /\ pages_fetched >= Cardinality({i \in 1..Len(results) : HasWikiSource(results[i])})

\* a finished Wikipedia run with a sourced outcome, an outcome whose fetch
\* failed and more pages counted than outcomes with a source
C19_Witness ==
    /\ provider = "wikipedia" /\ pc = "done"
    /\ \E i, j \in 1..Len(results) :
          /\ HasWikiSource(results[i]) /\ results[i].errors = <<>>
          /\ ~HasWikiSource(results[j]) /\ results[j].errors # <<>>
    /\ pages_fetched > Cardinality({i \in 1..Len(results) : HasWikiSource(results[i])})

NotFound(fr) == "No Ballotpedia page found" \in Elems(fr.errors)

\* C20: whatever the fetches and the parser do, a Ballotpedia outcome has
\* the error "No Ballotpedia page found" exactly when its race records no
\* "ballotpedia" source, and an outcome with that error has its title and
\* dates unset and no candidates.
C20_NotFoundIffNoSource ==
    provider = "ballotpedia" =>
        \A i \in 1..Len(results) :
            /\ NotFound(results[i]) <=> (results[i].race.sources.ballotpedia = NoneVal)
            /\ NotFound(results[i]) => Unpopulated(results[i].race)

====
